---- MODULE Spec2Model ----
(***************************************************************************)
(* The recording-session lifecycle of the two AudioRecorder components:    *)
(*   apps/audio-recorder/src/components/audio-recorder/index.tsx           *)
(*   apps/web/app/voice/_components/audio-recorder/index.tsx               *)
(* Each component owns a useAudioRecorder hook (React state and refs) and  *)
(* drives the browser's getUserMedia / MediaRecorder / MediaStream.        *)
(*                                                                         *)
(* The browser is modelled by what its interfaces do:                      *)
(*  - getUserMedia is asynchronous: a call stays pending until it resolves *)
(*    with a fresh stream or rejects;                                      *)
(*  - a MediaRecorder is inactive, recording or paused; the hooks call     *)
(*    start() with no timeslice and never requestData(), so a recorder     *)
(*    fires no dataavailable event while it records; stop() on a recorder  *)
(*    that is not inactive inactivates it and queues one dataavailable     *)
(*    event with the data gathered (possibly empty) followed by a stop     *)
(*    event; stop() on an inactive recorder does nothing; a recorder whose *)
(*    stream has no live track left is stopped by the browser the same     *)
(*    way;                                                                 *)
(*  - events of one recorder are dispatched in the order they were queued, *)
(*    events of different recorders in any order;                          *)
(*  - a handler runs to completion, and the component is rendered from the *)
(*    current state before the next handler runs;                          *)
(*  - after the component has unmounted the closures of the hook still run *)
(*    when the browser calls them; the state they set is kept as written.  *)
(*                                                                         *)
(* Three further specifications share the module, each moving only its own *)
(* variables:                                                              *)
(*  - PlayerSpec: the isPlaying flag and the <audio> element of the        *)
(*    AudioRecorder components;                                            *)
(*  - VisualizerSpec: AudioVisualizer of apps/audio/src/App.tsx and its    *)
(*    animation frames;                                                    *)
(*  - BarSpec: one call of calculateBarData on drawn arguments.            *)
(***************************************************************************)
EXTENDS Integers, Sequences, FiniteSets, TLC

\* Bounds of the model.
MaxStarts == 2      \* startRecording calls in one behaviour
MaxTime == 2        \* timer ticks counted (one tick is 0.1 s)
MaxUrls == 2        \* recordings offered to the player in one behaviour
MaxDuration == 3    \* longest recording played (one unit is 250 ms)
MaxFrames == 6      \* requestAnimationFrame calls in one behaviour
MaxLen == 4         \* longest frequencyData given to calculateBarData
MaxWidth == 4       \* widest canvas given to calculateBarData

\* A ref that holds null, and a state that holds null.
NULL == 0

\* The two components.
Apps == {"audio-recorder", "web"}

VARIABLES
    app,               \* which component this is
    mounted,           \* the component is mounted
    isRecording,       \* useState(false)
    isPaused,          \* useState(false)            (audio-recorder only)
    audioUrl,          \* useState(null): the artifact the object URL refers to
    recordingTime,     \* useState(0), in ticks      (audio-recorder only)
    mediaRecorderRef,  \* useRef(null): a recorder
    chunksRef,         \* useRef([]): the chunk buffer
    streamRef,         \* useRef(null): a stream     (audio-recorder only)
    intervalRef,       \* useRef(null): an interval  (audio-recorder only)
    timers,            \* the intervals the browser is running
    pending,           \* startRecording calls awaiting getUserMedia
    recorders,         \* the MediaRecorders created, each with its stream
    artifacts,         \* the Blobs built by onstop handlers, in order
    callerCalls,       \* the calls made to caller-supplied callbacks, in order
    consoleErrors,     \* console.error calls
    starts,            \* startRecording calls so far
    lastCall,          \* the hook function called last, and whether its guard passed
    timeBefore,        \* recordingTime when that function was called
    concurrentStart,   \* some startRecording was called while another awaited
    \* The player of the AudioRecorder components.
    isPlaying,         \* useState(false)
    audioEl,           \* the <audio> element: paused, currentTime, duration
    \* AudioVisualizer (apps/audio/src/App.tsx).
    visIsRecording,    \* useState(false)
    analyserRef,       \* useRef(null): an analyser
    animationFrameRef, \* useRef(null): the id of an animation frame request
    frames,            \* the animation frame requests not yet run or cancelled
    visPending,        \* startRecording calls awaiting getUserMedia
    visStarts,         \* startRecording calls so far
    analysers,         \* analysers created so far
    rafCount,          \* requestAnimationFrame calls so far
    \* calculateBarData (apps/audio/src/App.tsx).
    frequencyData,     \* its arguments
    width,
    barWidth,
    gap,
    data               \* <<>> before the call, <<its result>> after it

\* The variables of the useAudioRecorder hook and its browser.
recorderVars ==
    <<app, mounted, isRecording, isPaused, audioUrl, recordingTime,
      mediaRecorderRef, chunksRef, streamRef, intervalRef, timers, pending,
      recorders, artifacts, callerCalls, consoleErrors, starts, lastCall,
      timeBefore, concurrentStart>>

playerVars == <<isPlaying, audioEl>>

visualizerVars ==
    <<visIsRecording, analyserRef, animationFrameRef, frames, visPending,
      visStarts, analysers, rafCount>>

barVars == <<frequencyData, width, barWidth, gap, data>>

\* What a step of the hook leaves alone.
otherVars == <<playerVars, visualizerVars, barVars>>

vars == <<recorderVars, playerVars, visualizerVars, barVars>>

\* The React state and the refs of the hook.
hookState == <<isRecording, isPaused, audioUrl, recordingTime, mediaRecorderRef,
               chunksRef, streamRef, intervalRef>>

----------------------------------------------------------------------------
\* The browser: MediaRecorder and MediaStream.

\* Recorder r records stream r: both are created by the same startRecording.
Recorders == 1..Len(recorders)

DataEvent(s) == [type |-> "dataavailable", size |-> s]
StopEvent == [type |-> "stop", size |-> 0]

\* The sizes of the Blob a dataavailable event carries: empty or not.
Sizes == {0, 1}

\* new MediaRecorder(stream) followed by mediaRecorder.start(): the recorder
\* is recording and its stream's tracks are live. delivered lists the non-empty
\* chunks its dataavailable events have handed to the handler.
NewRecorder ==
    [state |-> "recording", live |-> TRUE, queue |-> <<>>, delivered |-> <<>>]


\* The recorder is inactivated: a final dataavailable event with the data
\* gathered so far (of size s) and then a stop event are queued.
Inactivate(rec, s) ==
    [rec EXCEPT !.state = "inactive",
                !.queue = Append(Append(@, DataEvent(s)), StopEvent)]

\* MediaRecorder.stop()
RecorderStop(rec, s) ==
    IF rec.state = "inactive" THEN rec ELSE Inactivate(rec, s)

\* stream.getTracks().forEach((track) => track.stop()): no track of the
\* stream is live any more, so the browser stops a recorder still recording it.
StopTracks(rec, s) ==
    [RecorderStop(rec, s) EXCEPT !.live = FALSE]

\* The chunk the dataavailable event of recorder r carries: the data recorder
\* r has recorded.
Chunk(r) == [rec |-> r]

----------------------------------------------------------------------------
\* useAudioRecorder

Call(f, a) == [fn |-> f, acted |-> a]

HookInit ==
    /\ app \in Apps
    /\ mounted = TRUE
    /\ isRecording = FALSE
    /\ isPaused = FALSE
    /\ audioUrl = NULL
    /\ recordingTime = 0
    /\ mediaRecorderRef = NULL
    /\ chunksRef = <<>>
    /\ streamRef = NULL
    /\ intervalRef = NULL
    /\ timers = {}
    /\ pending = 0
    /\ recorders = <<>>
    /\ artifacts = <<>>
    /\ callerCalls = <<>>
    /\ consoleErrors = 0
    /\ starts = 0
    /\ lastCall = Call("none", FALSE)
    /\ timeBefore = 0
    /\ concurrentStart = FALSE

\* setInterval returns an id no running interval has.
FreshTimer == CHOOSE i \in 1..(Cardinality(timers) + 1) : i \notin timers

\* startTimer without the early return: it sets a new interval every time.
startTimer_NoGuard ==
    /\ intervalRef' = FreshTimer
    /\ timers' = timers \cup {FreshTimer}

startTimer ==
    IF intervalRef # NULL
    THEN UNCHANGED <<intervalRef, timers>>
    ELSE /\ intervalRef' = FreshTimer
         /\ timers' = timers \cup {FreshTimer}

stopTimer ==
    IF intervalRef # NULL
    THEN /\ timers' = timers \ {intervalRef}
         /\ intervalRef' = NULL
    ELSE UNCHANGED <<intervalRef, timers>>

\* The interval callback: setRecordingTime((prev) => prev + 0.1)
Tick(t) ==
    /\ t \in timers
    /\ recordingTime < MaxTime
    /\ recordingTime' = recordingTime + 1
    /\ UNCHANGED <<otherVars, app, mounted, isRecording, isPaused, audioUrl, mediaRecorderRef,
                   chunksRef, streamRef, intervalRef, timers, pending,
                   recorders, artifacts, callerCalls, consoleErrors, starts,
                   lastCall, timeBefore, concurrentStart>>

\* startRecording up to its await: the record button is rendered only while
\* isRecording is false, and the call suspends in getUserMedia.
startRecording ==
    /\ mounted
    /\ ~isRecording
    /\ starts < MaxStarts
    /\ starts' = starts + 1
    /\ pending' = pending + 1
    /\ lastCall' = Call("startRecording", TRUE)
    /\ timeBefore' = recordingTime
    /\ concurrentStart' = (concurrentStart \/ pending > 0)
    /\ UNCHANGED <<otherVars, app, mounted, hookState, timers, recorders, artifacts, callerCalls,
                   consoleErrors>>

\* startRecording after getUserMedia resolved with a stream.
getUserMediaResolved ==
    /\ pending > 0
    /\ pending' = pending - 1
    /\ recorders' = Append(recorders, NewRecorder)
    /\ mediaRecorderRef' = Len(recorders) + 1
    /\ chunksRef' = <<>>
    /\ isRecording' = TRUE
    /\ IF app = "audio-recorder"
       THEN /\ streamRef' = Len(recorders) + 1
            /\ isPaused' = FALSE
            /\ recordingTime' = 0
            /\ startTimer
       ELSE UNCHANGED <<streamRef, isPaused, recordingTime, intervalRef, timers>>
    /\ UNCHANGED <<otherVars, app, mounted, audioUrl, artifacts, callerCalls, consoleErrors, starts,
                   lastCall, timeBefore, concurrentStart>>

\* A catch block that also resets the chunk buffer, as if the reset of
\* chunksRef were not undone when the acquisition fails.
getUserMediaRejected_ResetsChunks ==
    /\ pending > 0
    /\ pending' = pending - 1
    /\ consoleErrors' = consoleErrors + 1
    /\ chunksRef' = <<>>
    /\ UNCHANGED <<otherVars, app, mounted, isRecording, isPaused, audioUrl, recordingTime,
                   mediaRecorderRef, streamRef, intervalRef, timers, recorders,
                   artifacts, callerCalls, starts, lastCall, timeBefore, concurrentStart>>

\* startRecording after getUserMedia rejected: the catch block.
getUserMediaRejected ==
    /\ pending > 0
    /\ pending' = pending - 1
    /\ consoleErrors' = consoleErrors + 1
    /\ UNCHANGED <<otherVars, app, mounted, hookState, timers, recorders, artifacts, callerCalls,
                   starts, lastCall, timeBefore, concurrentStart>>

\* An ondataavailable handler that pushes every fragment, empty or not.
ondataavailable_NoSizeCheck(r, ev, rs) ==
    /\ chunksRef' = Append(chunksRef, Chunk(r))
    /\ recorders' = [rs EXCEPT ![r].delivered = Append(@, Chunk(r))]
    /\ UNCHANGED <<otherVars, app, mounted, isRecording, isPaused, audioUrl, recordingTime,
                   mediaRecorderRef, streamRef, intervalRef, timers, pending,
                   artifacts, callerCalls, consoleErrors, starts, lastCall, timeBefore,
                   concurrentStart>>

\* mediaRecorder.ondataavailable of recorder r, for its event ev; rs is the
\* recorders with the event taken off r's queue.
ondataavailable(r, ev, rs) ==
    /\ IF ev.size > 0
       THEN /\ chunksRef' = Append(chunksRef, Chunk(r))
            /\ recorders' = [rs EXCEPT ![r].delivered = Append(@, Chunk(r))]
       ELSE /\ chunksRef' = chunksRef
            /\ recorders' = rs
    /\ UNCHANGED <<otherVars, app, mounted, isRecording, isPaused, audioUrl, recordingTime,
                   mediaRecorderRef, streamRef, intervalRef, timers, pending,
                   artifacts, callerCalls, consoleErrors, starts, lastCall, timeBefore,
                   concurrentStart>>

\* An onstop handler that builds the Blob and sets audioUrl but does not call
\* onRecordingComplete.
onstop_NoCallback(r, rs, s) ==
    /\ artifacts' = Append(artifacts, [rec |-> r, blob |-> chunksRef])
    /\ audioUrl' = Len(artifacts) + 1
    /\ callerCalls' = callerCalls
    /\ IF app = "audio-recorder" /\ streamRef # NULL
       THEN /\ recorders' = [rs EXCEPT ![streamRef] = StopTracks(@, s)]
            /\ streamRef' = NULL
       ELSE /\ recorders' = rs
            /\ streamRef' = streamRef
    /\ UNCHANGED <<otherVars, app, mounted, isRecording, isPaused, recordingTime, mediaRecorderRef,
                   chunksRef, intervalRef, timers, pending, consoleErrors,
                   starts, lastCall, timeBefore, concurrentStart>>

\* mediaRecorder.onstop of recorder r; rs is the recorders with the event
\* taken off r's queue, s the size of the data a recorder stopped by the
\* stream cleanup has gathered.
onstop(r, rs, s) ==
    /\ artifacts' = Append(artifacts, [rec |-> r, blob |-> chunksRef])
    /\ audioUrl' = Len(artifacts) + 1
    /\ IF app = "audio-recorder"
       THEN /\ callerCalls' = Append(callerCalls,
                                     [cb |-> "onRecordingComplete",
                                      arg |-> Len(artifacts) + 1])
            /\ IF streamRef # NULL
               THEN /\ recorders' = [rs EXCEPT ![streamRef] = StopTracks(@, s)]
                    /\ streamRef' = NULL
               ELSE /\ recorders' = rs
                    /\ streamRef' = streamRef
       ELSE /\ callerCalls' = callerCalls
            /\ recorders' = rs
            /\ streamRef' = streamRef
    /\ UNCHANGED <<otherVars, app, mounted, isRecording, isPaused, recordingTime, mediaRecorderRef,
                   chunksRef, intervalRef, timers, pending, consoleErrors,
                   starts, lastCall, timeBefore, concurrentStart>>

\* The browser dispatches the next queued event of recorder r.
DispatchEvent(r) ==
    /\ r \in Recorders
    /\ recorders[r].queue # <<>>
    /\ LET ev == Head(recorders[r].queue)
           rs == [recorders EXCEPT ![r].queue = Tail(@)]
       IN  IF ev.type = "dataavailable"
           THEN ondataavailable(r, ev, rs)
           ELSE \E s \in Sizes : onstop(r, rs, s)

\* The guard of pauseRecording without the test of the recorder's state.
pauseGuard_NoStateCheck ==
    mediaRecorderRef # NULL

\* mediaRecorderRef.current && mediaRecorderRef.current.state === "recording"
pauseGuard ==
    mediaRecorderRef # NULL /\ recorders[mediaRecorderRef].state = "recording"

pauseRecording ==
    /\ mounted
    /\ app = "audio-recorder"
    /\ lastCall' = Call("pauseRecording", pauseGuard)
    /\ timeBefore' = recordingTime
    /\ IF pauseGuard
       THEN /\ recorders' = [recorders EXCEPT ![mediaRecorderRef].state = "paused"]
            /\ isPaused' = TRUE
            /\ stopTimer
       ELSE UNCHANGED <<recorders, isPaused, intervalRef, timers>>
    /\ UNCHANGED <<otherVars, app, mounted, isRecording, audioUrl, recordingTime, mediaRecorderRef,
                   chunksRef, streamRef, pending, artifacts, callerCalls,
                   consoleErrors, starts, concurrentStart>>

\* mediaRecorderRef.current && mediaRecorderRef.current.state === "paused"
resumeGuard ==
    mediaRecorderRef # NULL /\ recorders[mediaRecorderRef].state = "paused"

\* resumeRecording resetting the recording time as startRecording does.
resumeRecording_ResetsTime ==
    /\ mounted
    /\ app = "audio-recorder"
    /\ lastCall' = Call("resumeRecording", resumeGuard)
    /\ timeBefore' = recordingTime
    /\ IF resumeGuard
       THEN /\ recorders' = [recorders EXCEPT ![mediaRecorderRef].state = "recording"]
            /\ isPaused' = FALSE
            /\ recordingTime' = 0
            /\ startTimer
       ELSE UNCHANGED <<recorders, isPaused, recordingTime, intervalRef,
                        timers>>
    /\ UNCHANGED <<otherVars, app, mounted, isRecording, audioUrl, mediaRecorderRef,
                   chunksRef, streamRef, pending, artifacts, callerCalls,
                   consoleErrors, starts, concurrentStart>>

resumeRecording ==
    /\ mounted
    /\ app = "audio-recorder"
    /\ lastCall' = Call("resumeRecording", resumeGuard)
    /\ timeBefore' = recordingTime
    /\ IF resumeGuard
       THEN /\ recorders' = [recorders EXCEPT ![mediaRecorderRef].state = "recording"]
            /\ isPaused' = FALSE
            /\ startTimer
       ELSE UNCHANGED <<recorders, isPaused, intervalRef, timers>>
    /\ UNCHANGED <<otherVars, app, mounted, isRecording, audioUrl, recordingTime, mediaRecorderRef,
                   chunksRef, streamRef, pending, artifacts, callerCalls,
                   consoleErrors, starts, concurrentStart>>

\* mediaRecorderRef.current && isRecording
stopGuard ==
    mediaRecorderRef # NULL /\ isRecording

\* stopRecording without its setRecordingTime(0).
stopRecording_KeepsTime(s) ==
    /\ mounted
    /\ lastCall' = Call("stopRecording", stopGuard)
    /\ timeBefore' = recordingTime
    /\ IF stopGuard
       THEN /\ isRecording' = FALSE
            /\ IF app = "audio-recorder"
               THEN LET rs == [recorders EXCEPT
                                 ![mediaRecorderRef] = RecorderStop(@, s)]
                    IN  /\ IF streamRef # NULL
                           THEN /\ recorders' =
                                      [rs EXCEPT ![streamRef] = StopTracks(@, s)]
                                /\ streamRef' = NULL
                           ELSE /\ recorders' = rs
                                /\ streamRef' = streamRef
                        /\ isPaused' = FALSE
                        /\ stopTimer
                        /\ recordingTime' = recordingTime
               ELSE /\ recorders' = [recorders EXCEPT ![mediaRecorderRef] =
                                        StopTracks(RecorderStop(@, s), s)]
                    /\ UNCHANGED <<streamRef, isPaused, intervalRef, timers,
                                   recordingTime>>
       ELSE UNCHANGED <<isRecording, recorders, streamRef, isPaused,
                        intervalRef, timers, recordingTime>>
    /\ UNCHANGED <<otherVars, app, mounted, audioUrl, mediaRecorderRef, chunksRef, pending,
                   artifacts, callerCalls, consoleErrors, starts, concurrentStart>>

\* stopRecording; s is the size of the data the stopped recorder has gathered.
stopRecording(s) ==
    /\ mounted
    /\ lastCall' = Call("stopRecording", stopGuard)
    /\ timeBefore' = recordingTime
    /\ IF stopGuard
       THEN /\ isRecording' = FALSE
            /\ IF app = "audio-recorder"
               THEN LET rs == [recorders EXCEPT
                                 ![mediaRecorderRef] = RecorderStop(@, s)]
                    IN  /\ IF streamRef # NULL
                           THEN /\ recorders' =
                                      [rs EXCEPT ![streamRef] = StopTracks(@, s)]
                                /\ streamRef' = NULL
                           ELSE /\ recorders' = rs
                                /\ streamRef' = streamRef
                        /\ isPaused' = FALSE
                        /\ stopTimer
                        /\ recordingTime' = 0
               ELSE /\ recorders' = [recorders EXCEPT ![mediaRecorderRef] =
                                        StopTracks(RecorderStop(@, s), s)]
                    /\ UNCHANGED <<streamRef, isPaused, intervalRef, timers,
                                   recordingTime>>
       ELSE UNCHANGED <<isRecording, recorders, streamRef, isPaused,
                        intervalRef, timers, recordingTime>>
    /\ UNCHANGED <<otherVars, app, mounted, audioUrl, mediaRecorderRef, chunksRef, pending,
                   artifacts, callerCalls, consoleErrors, starts, concurrentStart>>

\* The browser: the tracks of stream r end by themselves (the device is
\* removed, the permission is revoked).
TrackEnded(r, s) ==
    /\ r \in Recorders
    /\ recorders[r].live
    /\ recorders' = [recorders EXCEPT ![r] = StopTracks(@, s)]
    /\ UNCHANGED <<otherVars, app, mounted, hookState, timers, pending, artifacts, callerCalls,
                   consoleErrors, starts, lastCall, timeBefore, concurrentStart>>

\* The component unmounts: the cleanup of the audio-recorder hook's effect
\* clears the interval intervalRef holds and leaves the ref as it is; the web
\* hook has no cleanup. The buttons are gone, so no hook function is called
\* any more; a pending getUserMedia and the recorders' events still run their
\* continuations and handlers.
Unmount ==
    /\ mounted
    /\ mounted' = FALSE
    /\ timers' = IF app = "audio-recorder" /\ intervalRef # NULL
                 THEN timers \ {intervalRef}
                 ELSE timers
    /\ UNCHANGED <<otherVars, app, hookState, pending, recorders, artifacts, callerCalls,
                   consoleErrors, starts, lastCall, timeBefore, concurrentStart>>

\* getBlob: null when the chunk buffer is empty, else a Blob of the buffer.
NoBlob == [null |-> TRUE, chunks |-> <<>>]
Blob(chunks) == [null |-> FALSE, chunks |-> chunks]
getBlob == IF Len(chunksRef) = 0 THEN NoBlob ELSE Blob(chunksRef)

----------------------------------------------------------------------------
\* The other components, as constructed.

\* The <audio> element is rendered only while audioUrl is set: audioRef.current
\* is null before.
NoAudio == [paused |-> TRUE, currentTime |-> 0, duration |-> 0]

PlayerInit ==
    /\ isPlaying = FALSE
    /\ audioEl = NoAudio

VisualizerInit ==
    /\ visIsRecording = FALSE
    /\ analyserRef = NULL
    /\ animationFrameRef = NULL
    /\ frames = {}
    /\ visPending = 0
    /\ visStarts = 0
    /\ analysers = 0
    /\ rafCount = 0

\* calculateBarData has not been called.
BarIdle ==
    /\ frequencyData = <<>>
    /\ width = 0
    /\ barWidth = 0
    /\ gap = 0
    /\ data = <<>>

Init == HookInit /\ PlayerInit /\ VisualizerInit /\ BarIdle

Next ==
    \/ startRecording
    \/ getUserMediaResolved
    \/ getUserMediaRejected
    \/ pauseRecording
    \/ resumeRecording
    \/ \E s \in Sizes : stopRecording(s)
    \/ \E r \in Recorders : DispatchEvent(r)
    \/ \E r \in Recorders, s \in Sizes : TrackEnded(r, s)
    \/ \E t \in timers : Tick(t)
    \/ Unmount

Spec == Init /\ [][Next]_vars

----------------------------------------------------------------------------
\* Shorthands of the properties.

Artifacts == 1..Len(artifacts)
Calls == 1..Len(callerCalls)

\* The artifacts built by the onstop handler of recorder r.
ArtifactsOf(r) == {i \in Artifacts : artifacts[i].rec = r}

\* The onRecordingComplete calls that passed an artifact of recorder r.
CompleteCallsOf(r) ==
    {j \in Calls : /\ callerCalls[j].cb = "onRecordingComplete"
                   /\ callerCalls[j].arg \in ArtifactsOf(r)}

\* The stop event of recorder r has been dispatched: its session is complete.
Completed(r) == recorders[r].state = "inactive" /\ recorders[r].queue = <<>>

\* No event of any recorder is waiting to be dispatched.
Quiet == \A r \in Recorders : recorders[r].queue = <<>>

Active == {r \in Recorders : recorders[r].state # "inactive"}
Live == {r \in Recorders : recorders[r].live}

----------------------------------------------------------------------------
\* C1: the Blob assembled in a recorder's onstop handler consists of exactly
\* the non-empty chunks that recorder's dataavailable events delivered, in
\* arrival order, also when every startRecording was called with no other
\* call in flight.
C1_ArtifactIsSessionChunks ==
    ~concurrentStart =>
        \A i \in Artifacts : artifacts[i].blob = recorders[artifacts[i].rec].delivered

\* C2: at every moment at most one MediaRecorder is active and at most one
\* microphone stream is held.
C2_SingleSession ==
    /\ Cardinality(Active) <= 1
    /\ Cardinality(Live) <= 1

\* C3: once stopRecording was the last call after a startRecording, the
\* session is Stopped, no track of any acquired stream is live, and when the
\* queued events have been dispatched an artifact of the current recorder
\* exists.
C3_StopAlwaysStops ==
    (starts > 0 /\ lastCall.fn = "stopRecording") =>
        /\ ~isRecording
        /\ Live = {}
        /\ (Quiet /\ mediaRecorderRef # NULL) => ArtifactsOf(mediaRecorderRef) # {}

\* C4: every artifact an onstop handler produced was passed to the caller's
\* onRecordingComplete callback, in both components.
C4_CompleteCallbackInvoked ==
    \A i \in Artifacts :
        \E j \in Calls : callerCalls[j] = [cb |-> "onRecordingComplete", arg |-> i]

\* C5: a recorder whose stop event has been dispatched has exactly one
\* artifact, a recorder whose stop event has not been dispatched has none, and
\* audioUrl refers to the artifact built last; in the audio-recorder component
\* each artifact was passed to onRecordingComplete exactly once and nothing
\* else was; a stopRecording call made while isRecording is false adds no
\* event, artifact or callback call.
C5_OneArtifactPerSession ==
    /\ [](/\ \A r \in Recorders :
               Cardinality(ArtifactsOf(r)) = (IF Completed(r) THEN 1 ELSE 0)
          /\ audioUrl = Len(artifacts)
          /\ app = "audio-recorder" =>
                /\ \A r \in Recorders :
                      Cardinality(CompleteCallsOf(r)) = Cardinality(ArtifactsOf(r))
                /\ Len(callerCalls) = Len(artifacts))
    /\ [][(lastCall'.fn = "stopRecording" /\ lastCall' # lastCall /\ ~isRecording)
            => UNCHANGED <<recorders, artifacts, callerCalls, audioUrl>>]_vars

\* C5 witness: a session of the audio-recorder component is complete with its
\* artifact, and stopRecording was then called again in Stopped.
C5_Witness ==
    /\ app = "audio-recorder"
    /\ Len(artifacts) = 1
    /\ Completed(artifacts[1].rec)
    /\ artifacts[1].blob # <<>>
    /\ lastCall = Call("stopRecording", FALSE)

\* C6: no artifact is built from zero chunks: a session in which no non-empty
\* chunk was collected produces no Blob, no audioUrl and no callback call.
C6_EmptyRecordingNoArtifact ==
    \A i \in Artifacts : artifacts[i].blob # <<>>

\* C7: when every startRecording was called with no other call in flight (each
\* session starts from Idle or Stopped), the chunk buffer holds only chunks of
\* the current recorder and no artifact holds a chunk of another recorder
\* than the one whose onstop built it.
C7_SessionsIndependent ==
    ~concurrentStart =>
        /\ \A k \in 1..Len(chunksRef) : chunksRef[k].rec = mediaRecorderRef
        /\ \A i \in Artifacts :
             \A k \in 1..Len(artifacts[i].blob) :
                 artifacts[i].blob[k].rec = artifacts[i].rec

\* C8: the onstop handler of a recorder stops the tracks of, and clears
\* streamRef of, no other stream than that recorder's own.
C8_HandleNotShared ==
    [][(~concurrentStart /\ Len(artifacts') = Len(artifacts) + 1) =>
         LET r == artifacts'[Len(artifacts')].rec
         IN  /\ \A q \in Recorders :
                   (recorders[q].live /\ ~recorders'[q].live) => q = r
             /\ (streamRef # NULL /\ streamRef' = NULL) => streamRef = r]_vars

\* C9: the step in which getUserMedia rejects (the one console.error call)
\* changes no state and no ref of the hook, no timer and no recorder, produces
\* no artifact and no callback call, and leaves one call fewer pending (no
\* retry).
C9_FailureLeavesSession ==
    [][consoleErrors' # consoleErrors =>
         /\ UNCHANGED <<isRecording, isPaused, recordingTime, audioUrl, chunksRef,
                        mediaRecorderRef, streamRef, intervalRef, timers,
                        recorders, artifacts, callerCalls, starts>>
         /\ pending' = pending - 1]_vars

\* C9 witness: the only acquisition attempted has failed and the session is
\* Idle, with no recorder created and no call pending.
C9_Witness ==
    /\ consoleErrors = 1
    /\ starts = 1
    /\ pending = 0
    /\ ~isRecording
    /\ recorders = <<>>

\* C10: after a failed acquisition the caller's error callback has been
\* invoked.
C10_ErrorCallbackInvoked ==
    consoleErrors > 0 => \E j \in Calls : callerCalls[j].cb = "onError"

\* The session states read from the flags the component renders.
Recording == isRecording /\ ~isPaused
Paused == isRecording /\ isPaused
Stopped == ~isRecording

\* C11: in a step that begins and ends with the session Recording the
\* recording time does not decrease, and in a step that begins and ends with
\* the session Paused, or begins and ends with it Idle or Stopped, the
\* recording time does not change.
C11_TimeMonotonic ==
    [][/\ (Recording /\ Recording') => recordingTime' >= recordingTime
       /\ (Paused /\ Paused') => recordingTime' = recordingTime
       /\ (Stopped /\ Stopped') => recordingTime' = recordingTime]_vars

C13_IllegalCallsAreNoOps ==
    [][(\/ pauseRecording /\ ~Recording
        \/ resumeRecording /\ ~Paused
        \/ Stopped /\ \E s \in Sizes : stopRecording(s))
       => /\ ~lastCall'.acted
          /\ UNCHANGED <<hookState, timers, recorders, consoleErrors,
                         artifacts, callerCalls>>]_vars

\* C13 witness: pauseRecording was called while the session was Paused, and
\* the session is still Paused with its recorder paused.
C13_Witness ==
    /\ lastCall = Call("pauseRecording", FALSE)
    /\ Paused
    /\ recorders[mediaRecorderRef].state = "paused"

C15_AbnormalEndReleases ==
    /\ (~mounted /\ isRecording) => (Live = {} /\ timers = {})
    /\ (mediaRecorderRef # NULL /\ Completed(mediaRecorderRef)) =>
          /\ ~recorders[mediaRecorderRef].live
          /\ ~(Recording /\ timers # {})

\* C16: the dispatch of a dataavailable event of size 0 leaves the chunk
\* buffer as it was and the dispatch of one of size > 0 appends that one
\* fragment at the end; the buffer changes in no other step but the
\* continuation of startRecording, which empties it. So the buffer holds
\* exactly the fragments of size > 0 delivered since, in arrival order.
C16_ZeroLengthDropped ==
    [][/\ \A r \in Recorders :
            (DispatchEvent(r) /\ Head(recorders[r].queue).type = "dataavailable")
            => chunksRef' = IF Head(recorders[r].queue).size > 0
                            THEN Append(chunksRef, Chunk(r))
                            ELSE chunksRef
       /\ chunksRef' # chunksRef =>
            \/ \E r \in Recorders :
                  /\ DispatchEvent(r)
                  /\ Head(recorders[r].queue) = DataEvent(1)
            \/ Len(recorders') = Len(recorders) + 1 /\ chunksRef' = <<>>]_vars

\* C16 witness: the one dataavailable event of a stopped recorder had size 0
\* and has been dispatched; nothing of that recorder was delivered to the
\* buffer, which is empty.
C16_Witness ==
    \E r \in Recorders :
        /\ recorders[r].state = "inactive"
        /\ recorders[r].queue = <<StopEvent>>
        /\ recorders[r].delivered = <<>>
        /\ chunksRef = <<>>

\* C17: releasing a stream that is already released changes nothing: stopping
\* the tracks of a stream twice leaves the stream and its recorder as
\* stopping them once does, and when the onstop handler of a recorder runs
\* after the stream of that recorder was released (by stopRecording or because
\* its tracks ended) its stream cleanup leaves every stream and every recorder
\* as it was, when no startRecording was called while another awaited
\* getUserMedia.
C17_ReleaseIdempotent ==
    /\ [](\A r \in Recorders : \A s1, s2 \in Sizes :
             StopTracks(StopTracks(recorders[r], s1), s2)
               = StopTracks(recorders[r], s1))
    /\ [][\A r \in Recorders :
             (/\ ~concurrentStart
              /\ DispatchEvent(r)
              /\ Head(recorders[r].queue).type = "stop"
              /\ ~recorders[r].live)
             => Live' = Live /\ Active' = Active]_vars

\* C18: whenever audioUrl refers to an artifact built from at least one chunk
\* (and no startRecording was called while another awaited getUserMedia),
\* getBlob returns a Blob of exactly the chunks of that artifact.
C18_DownloadMatchesPlayback ==
    (/\ ~concurrentStart
     /\ audioUrl # NULL
     /\ artifacts[audioUrl].blob # <<>>)
    => getBlob = Blob(artifacts[audioUrl].blob)

\* C19: in every state of the mounted component the flags agree with the
\* recorder in mediaRecorderRef: isRecording is true exactly when there is
\* such a recorder and it is recording or paused, isPaused is true exactly
\* when it is paused, and isPaused implies isRecording.
C19_FlagsAgreeWithRecorder ==
    mounted =>
      /\ isRecording <=> (/\ mediaRecorderRef # NULL
                          /\ recorders[mediaRecorderRef].state
                               \in {"recording", "paused"})
      /\ app = "audio-recorder" =>
            (isPaused <=> (/\ mediaRecorderRef # NULL
                           /\ recorders[mediaRecorderRef].state = "paused"))
      /\ isPaused => isRecording

\* C20: at most one interval runs at any time; while the audio-recorder
\* component is mounted an interval runs exactly when the session is
\* Recording (isRecording and not isPaused); and every tick that changes the
\* recording time happens while the session is Recording, so none does after
\* pauseRecording or stopRecording.
C20_OneTimer ==
    /\ [](Cardinality(timers) <= 1)
    /\ []((app = "audio-recorder" /\ mounted) => (timers # {} <=> Recording))
    /\ [][(\E t \in timers : Tick(t)) => Recording]_vars

\* C20 witness: two startRecording calls have both run startTimer, the second
\* while the interval of the first was running, and one interval runs.
C20_Witness ==
    /\ app = "audio-recorder"
    /\ Len(recorders) = 2
    /\ recorders[1].state = "recording"
    /\ recorders[2].state = "recording"
    /\ Recording
    /\ Cardinality(timers) = 1

----------------------------------------------------------------------------
\* The player of the AudioRecorder components: the isPlaying flag and the
\* <audio> element. The element is modelled by what HTMLMediaElement does:
\* a new src loads paused at the start; play() unpauses, from the start when
\* playback had ended; playback that reaches the end pauses the element and
\* fires ended; the controls attribute lets the user play and pause the
\* element directly.

\* jumpToTime is called with [500, 750, 1000, 4000] ms.
JumpTimes == {2, 3, 4, 16}
Durations == 1..MaxDuration

Min(a, b) == IF a < b THEN a ELSE b

\* The element after its src was set to a recording of duration d.
Load(d) == [paused |-> TRUE, currentTime |-> 0, duration |-> d]

\* audioRef.current.play()
Play(el) ==
    [el EXCEPT !.paused = FALSE,
               !.currentTime = IF @ = el.duration THEN 0 ELSE @]

\* audioRef.current.pause()
Pause(el) == [el EXCEPT !.paused = TRUE]

\* A session of the recorder completes: onstop's setAudioUrl(url) gives the
\* element a new src, a recording of duration d.
setAudioUrl(d) ==
    /\ audioUrl < MaxUrls
    /\ audioUrl' = audioUrl + 1
    /\ audioEl' = Load(d)
    /\ UNCHANGED <<isPlaying, visualizerVars, barVars, app, mounted,
                   isRecording, isPaused, recordingTime, mediaRecorderRef,
                   chunksRef, streamRef, intervalRef, timers, pending,
                   recorders, artifacts, callerCalls, consoleErrors, starts,
                   lastCall, timeBefore, concurrentStart>>

\* The play button, rendered while audioUrl is set.
handlePlayPause ==
    /\ audioUrl # NULL
    /\ audioEl' = IF isPlaying THEN Pause(audioEl) ELSE Play(audioEl)
    /\ isPlaying' = ~isPlaying
    /\ UNCHANGED <<recorderVars, visualizerVars, barVars>>

\* A time jump button of the audio-recorder component, for time t.
jumpToTime(t) ==
    /\ app = "audio-recorder"
    /\ audioUrl # NULL
    /\ LET el == [audioEl EXCEPT !.currentTime = Min(t, audioEl.duration)]
       IN  IF ~isPlaying
           THEN /\ audioEl' = Play(el)
                /\ isPlaying' = TRUE
           ELSE /\ audioEl' = el
                /\ isPlaying' = isPlaying
    /\ UNCHANGED <<recorderVars, visualizerVars, barVars>>

\* The element plays on by one unit of time.
TimeAdvance ==
    /\ ~audioEl.paused
    /\ audioEl.currentTime < audioEl.duration
    /\ audioEl' = [audioEl EXCEPT !.currentTime = @ + 1]
    /\ UNCHANGED <<isPlaying, recorderVars, visualizerVars, barVars>>

\* Playback has reached the end: the element pauses and fires ended, and
\* onEnded runs setIsPlaying(false).
onEnded ==
    /\ ~audioEl.paused
    /\ audioEl.currentTime = audioEl.duration
    /\ audioEl' = Pause(audioEl)
    /\ isPlaying' = FALSE
    /\ UNCHANGED <<recorderVars, visualizerVars, barVars>>

\* The user presses play or pause in the element's own controls.
NativeControl ==
    /\ audioUrl # NULL
    /\ audioEl' = IF audioEl.paused THEN Play(audioEl) ELSE Pause(audioEl)
    /\ UNCHANGED <<isPlaying, recorderVars, visualizerVars, barVars>>

PlayerNext ==
    \/ \E d \in Durations : setAudioUrl(d)
    \/ handlePlayPause
    \/ \E t \in JumpTimes : jumpToTime(t)
    \/ TimeAdvance
    \/ onEnded
    \/ NativeControl

PlayerSpec == Init /\ [][PlayerNext]_vars

\* C21: while the <audio> element is rendered, isPlaying is true exactly when
\* the element is playing (not paused).
C21_IsPlayingMatchesElement ==
    audioUrl # NULL => (isPlaying <=> ~audioEl.paused)

----------------------------------------------------------------------------
\* AudioVisualizer (both variants of apps/audio/src/App.tsx run the same
\* steps). The canvas is rendered with the component, so canvasRef.current is
\* set whenever animate runs. requestAnimationFrame returns a fresh id and
\* runs its callback once, unless cancelAnimationFrame was called with the id.

\* animate(): draw the bars of the current analyser and request the next
\* frame; without an analyser, return.
animateBody(rest) ==
    IF analyserRef' = NULL
    THEN /\ frames' = rest
         /\ UNCHANGED <<animationFrameRef, rafCount>>
    ELSE /\ rafCount < MaxFrames
         /\ rafCount' = rafCount + 1
         /\ animationFrameRef' = rafCount + 1
         /\ frames' = rest \cup {rafCount + 1}

\* The button while isRecording is false: startRecording up to its await.
visStartRecording ==
    /\ ~visIsRecording
    /\ visStarts < MaxStarts
    /\ visStarts' = visStarts + 1
    /\ visPending' = visPending + 1
    /\ UNCHANGED <<visIsRecording, analyserRef, animationFrameRef, frames,
                   analysers, rafCount, recorderVars, playerVars, barVars>>

\* startRecording after getUserMedia resolved: a new analyser, and the first
\* call of this call's animate.
visGetUserMediaResolved ==
    /\ visPending > 0
    /\ visPending' = visPending - 1
    /\ analysers' = analysers + 1
    /\ analyserRef' = analysers + 1
    /\ visIsRecording' = TRUE
    /\ animateBody(frames)
    /\ UNCHANGED <<visStarts, recorderVars, playerVars, barVars>>

\* startRecording after getUserMedia rejected: console.error (and an alert).
visGetUserMediaRejected ==
    /\ visPending > 0
    /\ visPending' = visPending - 1
    /\ UNCHANGED <<visIsRecording, analyserRef, animationFrameRef, frames,
                   visStarts, analysers, rafCount, recorderVars, playerVars,
                   barVars>>

\* The browser runs the requested animation frame f: animate.
animate(f) ==
    /\ f \in frames
    /\ analyserRef' = analyserRef
    /\ animateBody(frames \ {f})
    /\ UNCHANGED <<visIsRecording, visPending, visStarts, analysers,
                   recorderVars, playerVars, barVars>>

\* The button while isRecording is true: stopRecording.
visStopRecording ==
    /\ visIsRecording
    /\ frames' = IF animationFrameRef # NULL
                 THEN frames \ {animationFrameRef}
                 ELSE frames
    /\ analyserRef' = NULL
    /\ visIsRecording' = FALSE
    /\ UNCHANGED <<animationFrameRef, visPending, visStarts, analysers,
                   rafCount, recorderVars, playerVars, barVars>>

VisualizerNext ==
    \/ visStartRecording
    \/ visGetUserMediaResolved
    \/ visGetUserMediaRejected
    \/ \E f \in frames : animate(f)
    \/ visStopRecording

VisualizerSpec == Init /\ [][VisualizerNext]_vars

\* C22: at most one animation frame request is outstanding at any time (one
\* animation loop), and an animation frame that runs while isRecording is
\* false neither draws nor requests another frame.
C22_SingleAnimationLoop ==
    /\ [](Cardinality(frames) <= 1)
    /\ [][\A f \in frames :
             (animate(f) /\ ~visIsRecording) =>
                 (rafCount' = rafCount /\ frames' = frames \ {f})]_vars

----------------------------------------------------------------------------
\* calculateBarData (both copies in apps/audio/src/App.tsx are the same
\* code). frequencyData is a Uint8Array, here a sequence indexed from 1;
\* units = width / (barWidth + gap) is kept as the fraction it is.

Bytes == {0, 1, 255}
FrequencyInputs == UNION {[1..n -> Bytes] : n \in 0..MaxLen}
Widths == 1..MaxWidth
BarWidths == {1, 2}
Gaps == {0, 1}

\* units > frequencyData.length
UnitsExceedLength(fd, w, bw, g) == w > Len(fd) * (bw + g)

\* step: Math.floor(frequencyData.length / units) without the adjustment.
BarStep_NoAdjust(fd, w, bw, g) ==
    (Len(fd) * (bw + g)) \div w

\* step: Math.floor(frequencyData.length / units), or 1 after the adjustment.
BarStep(fd, w, bw, g) ==
    IF UnitsExceedLength(fd, w, bw, g)
    THEN 1
    ELSE (Len(fd) * (bw + g)) \div w

\* The number of i = 0, 1, ... with i < units, units after the adjustment.
BarCount(fd, w, bw, g) ==
    IF UnitsExceedLength(fd, w, bw, g)
    THEN Len(fd)
    ELSE (w + (bw + g) - 1) \div (bw + g)

\* The inner loop from j on:
\* for (; j < step && i * step + j < frequencyData.length; j++) sum += ...
RECURSIVE InnerLoop(_, _, _, _)
InnerLoop(fd, i, step, j) ==
    IF j < step /\ i * step + j < Len(fd)
    THEN fd[i * step + j + 1] + InnerLoop(fd, i, step, j + 1)
    ELSE 0

\* The array returned; the value sum / step is kept as the fraction it is.
calculateBarData(fd, w, bw, g) ==
    LET step == BarStep(fd, w, bw, g)
    IN  [k \in 1..BarCount(fd, w, bw, g) |->
           [sum |-> InnerLoop(fd, k - 1, step, 0), step |-> step]]

\* The arguments of one call.
BarInit ==
    /\ HookInit /\ PlayerInit /\ VisualizerInit
    /\ frequencyData \in FrequencyInputs
    /\ width \in Widths
    /\ barWidth \in BarWidths
    /\ gap \in Gaps
    /\ data = <<>>

\* The call.
Calculate ==
    /\ data = <<>>
    /\ data' = <<calculateBarData(frequencyData, width, barWidth, gap)>>
    /\ UNCHANGED <<frequencyData, width, barWidth, gap, recorderVars,
                   playerVars, visualizerVars>>

BarNext == Calculate

BarSpec == BarInit /\ [][BarNext]_vars

\* The sum of the n elements of fd that follow its first from elements.
RECURSIVE SliceSum(_, _, _)
SliceSum(fd, from, n) ==
    IF n = 0 THEN 0 ELSE fd[from + n] + SliceSum(fd, from, n - 1)

\* U = width / (barWidth + gap) when that is a positive integer.
WholeUnits == width % (barWidth + gap) = 0
U == width \div (barWidth + gap)
L == Len(frequencyData)
ExpectedStep == IF U <= L THEN L \div U ELSE 1

\* C23: when U = width / (barWidth + gap) is a positive integer, the array
\* calculateBarData returns has min(U, L) values; step is floor(L / U) if
\* U <= L and 1 otherwise, and is never 0; value i (from 0) is the sum of the
\* step inputs from index i * step on, all of them inside the input, divided by
\* step; and every value lies in 0..255.
C23_BarDataIsBucketAverages ==
    (WholeUnits /\ data # <<>>) =>
        LET result == data[1]
        IN  /\ Len(result) = Min(U, L)
            /\ \A k \in 1..Len(result) :
                  /\ result[k].step = ExpectedStep
                  /\ result[k].step # 0
                  /\ (k - 1) * ExpectedStep + ExpectedStep <= L
                  /\ result[k].sum =
                       SliceSum(frequencyData, (k - 1) * ExpectedStep,
                                ExpectedStep)
                  /\ 0 <= result[k].sum
                  /\ result[k].sum <= 255 * result[k].step

\* C23 witness: a call with U = 2 and L = 4 has returned two averages of two
\* inputs each, the first of a bucket with a non-zero input, and a call with
\* more units than inputs is covered by the same formula.
C23_Witness ==
    /\ WholeUnits
    /\ U = 2
    /\ L = 4
    /\ data # <<>>
    /\ Len(data[1]) = 2
    /\ data[1][1] = [sum |-> 256, step |-> 2]
    /\ data[1][2] = [sum |-> 1, step |-> 2]

----------------------------------------------------------------------------
\* The types of the hook's variables under Spec.
TypeOK ==
    /\ app \in Apps
    /\ mounted \in BOOLEAN
    /\ isRecording \in BOOLEAN
    /\ isPaused \in BOOLEAN
    /\ audioUrl \in 0..Len(artifacts)
    /\ recordingTime \in 0..MaxTime
    /\ mediaRecorderRef \in 0..Len(recorders)
    /\ streamRef \in 0..Len(recorders)
    /\ pending \in 0..MaxStarts
    /\ timeBefore \in 0..MaxTime
====
